---- MODULE Spec2Model ----
(***************************************************************************)
(* Model of the quiz backend (src/app.py): the row parser                  *)
(* parse_question_row, and the two request handlers get_questions and      *)
(* validate_answers working on the rows of the backing sheet.              *)
(*                                                                         *)
(* A Python str is a sequence of one-character strings, so that strip(),   *)
(* upper() and the f-string of the synthesized id are computed, not        *)
(* assumed.  Python indexes from 0: Field(row, i) is row[i].               *)
(***************************************************************************)
EXTENDS Integers, Sequences, FiniteSets, TLC

(* ------------------------------ bounds -------------------------------- *)
\* longest correct-answer field tried by the parser specification
MaxLen == 3
\* longest row (number of fields) tried by the parser specification
MaxFields == 8
\* most data rows (after the header) of the sheet
MaxRows == 2
\* largest integer cantidad requested
MaxCantidad == 2
\* most submitted answers in one validate-answers request
MaxRespuestas == 2

(* ------------------------- program constants -------------------------- *)
\* len(row) < 7
MinFields == 7
\* len(opciones_originales) < 2
MinOpciones == 2
\* data.get('cantidad', 5)
DefaultCantidad == 5
\* enumerate(all_rows[1:], start=2)
FirstDataRow == 2

(* ------------------------------ strings ------------------------------- *)
Chars == {" ", "a", "B"}

\* str.isspace() of one character
IsSpace(c) == c \in {" ", "\t", "\n", "\r"}

\* str.upper() of one character
UpperChar(c) ==
  CASE c = "a" -> "A"
    [] c = "b" -> "B"
    [] c = "c" -> "C"
    [] c = "d" -> "D"
    [] OTHER -> c

upper(s) == [i \in 1..Len(s) |-> UpperChar(s[i])]

RECURSIVE lstrip(_)
lstrip(s) == IF s # <<>> /\ IsSpace(Head(s)) THEN lstrip(Tail(s)) ELSE s

RECURSIVE rstrip(_)
rstrip(s) ==
  IF s # <<>> /\ IsSpace(s[Len(s)]) THEN rstrip(SubSeq(s, 1, Len(s) - 1)) ELSE s

\* faulty variant: only the left end is stripped
strip_left_only(s) == lstrip(s)

strip(s) == rstrip(lstrip(s))

\* str(n) for n >= 0
RECURSIVE DecimalDigits(_)
DecimalDigits(n) ==
  LET d == <<"0", "1", "2", "3", "4", "5", "6", "7", "8", "9">>[(n % 10) + 1]
  IN IF n < 10 THEN <<d>> ELSE Append(DecimalDigits(n \div 10), d)

\* f"pregunta_{row_index}"
pregunta_id(row_index) ==
  <<"p", "r", "e", "g", "u", "n", "t", "a", "_">> \o DecimalDigits(row_index)

\* all strings over cs of length at most n
StringsUpTo(cs, n) == UNION {[1..k -> cs] : k \in 0..n}

(* ----------------------------- row parser ----------------------------- *)
None == [none |-> TRUE]

Field(row, i) == row[i + 1]

RECURSIVE FilterNonEmpty(_)
FilterNonEmpty(ops) ==
  IF ops = <<>> THEN <<>>
  ELSE IF Head(ops).texto # <<>>
       THEN <<Head(ops)>> \o FilterNonEmpty(Tail(ops))
       ELSE FilterNonEmpty(Tail(ops))

\* faulty variant: one option is enough
TooFewOptionsOffByOne(ops) == Len(ops) < MinOpciones - 1

TooFewOptions(ops) == Len(ops) < MinOpciones

NormalizeAnswer(s) == upper(strip(s))

parse_question_row(row, row_index) ==
  IF Len(row) < MinFields THEN None
  ELSE
    LET question_id ==
          IF Field(row, 0) # <<>> THEN Field(row, 0) ELSE pregunta_id(row_index)
        question_text == IF Len(row) > 1 THEN Field(row, 1) ELSE <<>>
        opciones_originales ==
          FilterNonEmpty(<<
            [codigo |-> "A", texto |-> IF Len(row) > 2 THEN Field(row, 2) ELSE <<>>],
            [codigo |-> "B", texto |-> IF Len(row) > 3 THEN Field(row, 3) ELSE <<>>],
            [codigo |-> "C", texto |-> IF Len(row) > 4 THEN Field(row, 4) ELSE <<>>],
            [codigo |-> "D", texto |-> IF Len(row) > 5 THEN Field(row, 5) ELSE <<>>] >>)
        respuesta_correcta == IF Len(row) > 6 THEN Field(row, 6) ELSE <<>>
    IN IF question_text = <<>> THEN None
       ELSE IF TooFewOptions(opciones_originales) THEN None
       ELSE [id |-> question_id,
             pregunta |-> question_text,
             opciones |-> opciones_originales,
             respuesta_correcta |-> NormalizeAnswer(respuesta_correcta)]

(* --------------------------- loader, sampler -------------------------- *)
\* all_rows[1:]
DataRows(rows) == IF rows = <<>> THEN <<>> ELSE Tail(rows)

\* the loop of get_questions over enumerate(all_rows[1:], start=idx)
RECURSIVE parse_rows(_, _)
parse_rows(rows, idx) ==
  IF rows = <<>> THEN <<>>
  ELSE LET q == parse_question_row(Head(rows), idx)
       IN (IF q # None THEN <<q>> ELSE <<>>) \o parse_rows(Tail(rows), idx + 1)

load_preguntas(rows) == parse_rows(DataRows(rows), FirstDataRow)

\* d[k] = v of a Python dict
DictSet(d, k, v) == [x \in (DOMAIN d) \cup {k} |-> IF x = k THEN v ELSE d[x]]

\* the loop of validate_answers over enumerate(all_rows[1:], start=idx)
RECURSIVE dict_rows(_, _, _)
dict_rows(d, rows, idx) ==
  IF rows = <<>> THEN d
  ELSE LET q == parse_question_row(Head(rows), idx)
       IN dict_rows(IF q # None THEN DictSet(d, q.id, q) ELSE d, Tail(rows), idx + 1)

\* faulty variant: the rows are numbered from 1, not from 2
build_dict_from_row_one(rows) == dict_rows(<<>>, DataRows(rows), FirstDataRow - 1)

build_preguntas_dict(rows) == dict_rows(<<>>, DataRows(rows), FirstDataRow)

InjectiveSeqs(n, k) ==
  {f \in [1..k -> 1..n] : \A i, j \in 1..k : i # j => f[i] # f[j]}

\* faulty variant: a position may be taken more than once
sample_with_replacement(population, k) ==
  {[i \in 1..k |-> population[f[i]]] : f \in [1..k -> 1..Len(population)]}

\* the possible results of random.sample(population, k), 0 <= k <= len(population):
\* k items taken from k different positions, in any order
random_sample(population, k) ==
  {[i \in 1..k |-> population[f[i]]] : f \in InjectiveSeqs(Len(population), k)}

\* the pool's questions are sampled by reference: a reference is a position
\* of the list preguntas
Refs(list) == [i \in 1..Len(list) |-> i]

\* faulty variant: the shuffle loses an option
shuffle_dropping_one(pregunta) ==
  random_sample(pregunta.opciones, Len(pregunta.opciones) - 1)

\* random.sample(pregunta["opciones"], len(pregunta["opciones"]))
opciones_mezcladas_of(pregunta) ==
  random_sample(pregunta.opciones, Len(pregunta.opciones))

\* faulty variant: the whole question is served
served_with_answer(pregunta, opciones_mezcladas) ==
  [id |-> pregunta.id,
   pregunta |-> pregunta.pregunta,
   opciones |-> opciones_mezcladas,
   respuesta_correcta |-> pregunta.respuesta_correcta]

\* one entry of resultado
served_question(pregunta, opciones_mezcladas) ==
  [id |-> pregunta.id,
   pregunta |-> pregunta.pregunta,
   opciones |-> opciones_mezcladas]

Min(a, b) == IF a <= b THEN a ELSE b

(* ------------------------------ JSON values --------------------------- *)
\* the value of "cantidad": a JSON number, boolean, string or null, or no
\* such key.  val is the number (a bool is the int 0 or 1, as in Python)
JInt(n) == [type |-> "int", val |-> n]
JBool(n) == [type |-> "bool", val |-> n]
JFloat(n) == [type |-> "float", val |-> n]
JStr(n) == [type |-> "str", val |-> n]
JNull == [type |-> "null", val |-> 0]
JAbsent == [type |-> "absent", val |-> 0]

\* isinstance(v, int): bool is a subclass of int
isinstance_int(v) == v.type \in {"int", "bool"}

\* data.get('cantidad', 5)
cantidad_of(d) == IF d.cantidad.type = "absent" THEN JInt(DefaultCantidad) ELSE d.cantidad

\* not isinstance(cantidad, int) or cantidad <= 0
cantidad_rejected(cantidad) == ~isinstance_int(cantidad) \/ cantidad.val <= 0

(* ------------------------------ validator ----------------------------- *)
\* the value of "respuesta" in a submitted item: a string, null, or no key
RStr(s) == [type |-> "str", val |-> s]
RNull == [type |-> "null", val |-> <<>>]
RAbsent == [type |-> "absent", val |-> <<>>]

\* respuesta.get('respuesta', '').strip() raises AttributeError on None
respuesta_raises(respuesta) == respuesta.respuesta.type = "null"

\* faulty variant: the submitted code is not stripped
enviada_without_strip(respuesta) ==
  upper(IF respuesta.respuesta.type = "absent" THEN <<>> ELSE respuesta.respuesta.val)

\* respuesta.get('respuesta', '').strip().upper()
respuesta_enviada_of(respuesta) ==
  upper(strip(IF respuesta.respuesta.type = "absent" THEN <<>> ELSE respuesta.respuesta.val))

\* faulty variant: an unknown id is not counted as incorrect
validate_item_forgetting_unknown(acc, respuesta, dict) ==
  LET question_id == respuesta.id
      respuesta_enviada == respuesta_enviada_of(respuesta)
  IN IF question_id \notin DOMAIN dict
     THEN [acc EXCEPT !.resultados =
             Append(@, [id |-> question_id, error |-> "Pregunta no encontrada",
                        puntaje |-> 0])]
     ELSE LET respuesta_correcta == dict[question_id].respuesta_correcta
              es_correcta == respuesta_enviada = respuesta_correcta
              puntaje == IF es_correcta THEN 1 ELSE 0
          IN [resultados |->
                Append(acc.resultados,
                       [id |-> question_id, correcta |-> es_correcta,
                        respuesta_enviada |-> respuesta_enviada,
                        respuesta_correcta |-> respuesta_correcta,
                        puntaje |-> puntaje]),
              puntaje_total |-> acc.puntaje_total + puntaje,
              correctas |-> acc.correctas + (IF es_correcta THEN 1 ELSE 0),
              incorrectas |-> acc.incorrectas + (IF es_correcta THEN 0 ELSE 1)]

\* one iteration of the validation loop that does not raise
validate_item(acc, respuesta, dict) ==
  LET question_id == respuesta.id
      respuesta_enviada == respuesta_enviada_of(respuesta)
  IN IF question_id \notin DOMAIN dict
     THEN [acc EXCEPT !.resultados =
             Append(@, [id |-> question_id, error |-> "Pregunta no encontrada",
                        puntaje |-> 0]),
           !.incorrectas = @ + 1]
     ELSE LET respuesta_correcta == dict[question_id].respuesta_correcta
              es_correcta == respuesta_enviada = respuesta_correcta
              puntaje == IF es_correcta THEN 1 ELSE 0
          IN [resultados |->
                Append(acc.resultados,
                       [id |-> question_id, correcta |-> es_correcta,
                        respuesta_enviada |-> respuesta_enviada,
                        respuesta_correcta |-> respuesta_correcta,
                        puntaje |-> puntaje]),
              puntaje_total |-> acc.puntaje_total + puntaje,
              correctas |-> acc.correctas + (IF es_correcta THEN 1 ELSE 0),
              incorrectas |-> acc.incorrectas + (IF es_correcta THEN 0 ELSE 1)]

(* ------------------------------- state -------------------------------- *)
VARIABLES
  all_rows,      \* the rows of the backing sheet (sheet.get_all_values())
  handler,       \* the operation in progress
  pc,            \* its position
  data,          \* the JSON body of the request
  contacted,     \* get_google_sheet() was called for this request
  preguntas,     \* get_questions: the parsed pool
  preguntas_seleccionadas,  \* get_questions: the sample, as references into preguntas
  resultado,     \* get_questions: the served questions built so far
  preguntas_dict,  \* validate_answers: the lookup by id
  resultados, puntaje_total, correctas, incorrectas,  \* validate_answers: accumulators
  response,      \* the response of the request
  row, row_index, question   \* the parser's arguments and its result

locals == <<preguntas, preguntas_seleccionadas, resultado, preguntas_dict,
            resultados, puntaje_total, correctas, incorrectas>>

vars == <<all_rows, handler, pc, data, contacted, locals, response,
          row, row_index, question>>

NoResponse == [status |-> 0]

LocalsInit ==
  /\ preguntas = <<>>
  /\ preguntas_seleccionadas = <<>>
  /\ resultado = <<>>
  /\ preguntas_dict = <<>>
  /\ resultados = <<>>
  /\ puntaje_total = 0
  /\ correctas = 0
  /\ incorrectas = 0
  /\ response = NoResponse

(* ------------------- parser specification (pure function) ------------- *)
IdFields == {<<>>, <<"7">>}
TextFields == {<<>>, <<"q">>}
OptionFields == {<<>>, <<" ">>, <<"x">>}
AnswerFields == StringsUpTo(Chars, MaxLen)
ExtraField == <<"e">>

RowOf(i, t, a, b, c, d, g, n) ==
  [k \in 1..n |->
     CASE k = 1 -> i [] k = 2 -> t [] k = 3 -> a [] k = 4 -> b
       [] k = 5 -> c [] k = 6 -> d [] k = 7 -> g [] OTHER -> ExtraField]

ParseRows ==
  {RowOf(i, t, a, b, c, d, g, n) :
     i \in IdFields, t \in TextFields, a \in OptionFields, b \in OptionFields,
     c \in OptionFields, d \in OptionFields, g \in AnswerFields,
     n \in 0..MaxFields}

InitParse ==
  /\ all_rows = <<>>
  /\ handler = "parse"
  /\ pc = "call"
  /\ data = None
  /\ contacted = FALSE
  /\ LocalsInit
  /\ row \in ParseRows
  /\ row_index \in FirstDataRow..(FirstDataRow + 1)
  /\ question = None

ParseRow ==
  /\ handler = "parse"
  /\ pc = "call"
  /\ question' = parse_question_row(row, row_index)
  /\ pc' = "returned"
  /\ UNCHANGED <<all_rows, handler, data, contacted, locals, response, row, row_index>>

NextParse == ParseRow

SpecParse == InitParse /\ [][NextParse]_vars

(* ----------------------- the sheet and the requests ------------------- *)
Q == <<"q">>
X == <<"x">>
Y == <<"y">>
Z == <<"z">>
E == <<>>

Header == <<<<"i", "d">>, Q, X, X, X, X, <<"r">>>>

\* id "1", options A, B, C; the answer needs strip() and upper()
RowFull == <<<<"1">>, Q, X, Y, Z, E, <<" ", "b">>>>
\* the same id again, with another answer; both options have the same text
RowDup == <<<<"1">>, Q, X, X, E, E, <<"A">>>>
\* no id: synthesized from the row position; options B and D survive
RowNoId == <<E, Q, E, X, E, Y, <<"b">>>>
\* an id spelled like the id synthesized for row 3
RowLit == <<pregunta_id(FirstDataRow + 1), Q, X, Y, E, E, <<"A">>>>
\* no question text: rejected
RowNoText == <<<<"2">>, E, X, Y, E, E, <<"A">>>>

RowPool == {RowFull, RowDup, RowNoId, RowLit, RowNoText}

Sheets ==
  {<<>>} \cup {<<Header>> \o d : d \in UNION {[1..k -> RowPool] : k \in 0..MaxRows}}

CantidadValues ==
  {JAbsent, JNull, JBool(0), JBool(1), JFloat(2), JStr(2)}
    \cup {JInt(n) : n \in (-1)..MaxCantidad}

\* the body of a get-questions request: JSON null, or an object
GetQuestionsBodies ==
  {[kind |-> "null"]} \cup {[kind |-> "object", cantidad |-> c] : c \in CantidadValues}

IdOne == <<"1">>
IdRowThree == pregunta_id(FirstDataRow + 1)
IdUnknown == <<"9", "9">>

\* the submitted items: an id of the sheet or an unknown one, with a code
\* that needs strip() and upper(), an exact code, null, or no code at all
SubmittedItems ==
  {[id |-> IdOne, respuesta |-> RStr(<<" ", "a">>)],
   [id |-> IdOne, respuesta |-> RStr(<<"B">>)],
   [id |-> IdOne, respuesta |-> RNull],
   [id |-> IdRowThree, respuesta |-> RStr(<<"B">>)],
   [id |-> IdRowThree, respuesta |-> RAbsent],
   [id |-> IdUnknown, respuesta |-> RStr(<<" ", "a">>)],
   [id |-> IdUnknown, respuesta |-> RNull]}

\* the body of a validate-answers request: JSON null, an object without
\* "respuestas", or an object with a list of items
ValidateBodies ==
  {[kind |-> "null"], [kind |-> "object", has_respuestas |-> FALSE, respuestas |-> <<>>]}
    \cup {[kind |-> "object", has_respuestas |-> TRUE, respuestas |-> r] :
            r \in UNION {[1..k -> SubmittedItems] : k \in 0..MaxRespuestas}}

\* what get_google_sheet() and get_all_values() can do: return the rows, raise
\* ValueError (configuration), or raise another exception
SourceOutcomes == {"ok", "ValueError", "Exception"}

ConfigError ==
  [status |-> 500, error |-> "Error de configuracion"]

Init ==
  /\ all_rows \in Sheets
  /\ handler = "idle"
  /\ pc = "idle"
  /\ data = None
  /\ contacted = FALSE
  /\ LocalsInit
  /\ row = <<>>
  /\ row_index = 0
  /\ question = None

(* ------------------------------ get_questions ------------------------- *)
\* lines 149-153: read the body, check cantidad
GetQuestionsBegin ==
  /\ handler = "idle"
  /\ \E d \in GetQuestionsBodies :
       /\ data' = d
       /\ handler' = "get_questions"
       /\ IF d.kind = "null"
          THEN /\ response' = [status |-> 500, error |-> "Error al obtener preguntas",
                               tipo |-> "AttributeError"]
               /\ pc' = "done"
          ELSE IF cantidad_rejected(cantidad_of(d))
          THEN /\ response' = [status |-> 400,
                               error |-> "La cantidad debe ser un numero entero positivo"]
               /\ pc' = "done"
          ELSE /\ response' = response
               /\ pc' = "fetch"
  /\ UNCHANGED <<all_rows, contacted, locals, row, row_index, question>>

\* lines 155-176: fetch the rows, parse the pool
GetQuestionsFetch ==
  /\ handler = "get_questions"
  /\ pc = "fetch"
  /\ contacted' = TRUE
  /\ \E outcome \in SourceOutcomes :
       CASE outcome = "ValueError" ->
              /\ response' = ConfigError
              /\ pc' = "done"
              /\ UNCHANGED preguntas
         [] outcome = "Exception" ->
              /\ response' = [status |-> 500, error |-> "Error al obtener preguntas",
                              tipo |-> "Exception"]
              /\ pc' = "done"
              /\ UNCHANGED preguntas
         [] OTHER ->
              /\ preguntas' = load_preguntas(all_rows)
              /\ IF preguntas' = <<>>
                 THEN /\ response' = [status |-> 404,
                                      error |-> "No se encontraron preguntas validas en el documento",
                                      filas_totales |-> Len(all_rows)]
                      /\ pc' = "done"
                 ELSE /\ response' = response
                      /\ pc' = "sample"
  /\ UNCHANGED <<all_rows, handler, data, preguntas_seleccionadas, resultado,
                 preguntas_dict, resultados, puntaje_total, correctas, incorrectas,
                 row, row_index, question>>

\* min(cantidad, len(preguntas))
cantidad_disponible_of(cantidad, pool) == Min(cantidad.val, Len(pool))

\* lines 178-180: random.sample(preguntas, cantidad_disponible)
GetQuestionsSample ==
  /\ handler = "get_questions"
  /\ pc = "sample"
  /\ \E s \in random_sample(Refs(preguntas),
                             cantidad_disponible_of(cantidad_of(data), preguntas)) :
       preguntas_seleccionadas' = s
  /\ pc' = "shuffle"
  /\ UNCHANGED <<all_rows, handler, data, contacted, preguntas, resultado,
                 preguntas_dict, resultados, puntaje_total, correctas, incorrectas,
                 response, row, row_index, question>>

\* lines 184-190: one iteration of the loop that shuffles the options
GetQuestionsShuffle ==
  /\ handler = "get_questions"
  /\ pc = "shuffle"
  /\ Len(resultado) < Len(preguntas_seleccionadas)
  /\ LET pregunta == preguntas[preguntas_seleccionadas[Len(resultado) + 1]]
     IN \E opciones_mezcladas \in opciones_mezcladas_of(pregunta) :
          resultado' = Append(resultado, served_question(pregunta, opciones_mezcladas))
  /\ UNCHANGED <<all_rows, handler, pc, data, contacted, preguntas,
                 preguntas_seleccionadas, preguntas_dict, resultados, puntaje_total,
                 correctas, incorrectas, response, row, row_index, question>>

\* line 192
GetQuestionsReturn ==
  /\ handler = "get_questions"
  /\ pc = "shuffle"
  /\ Len(resultado) = Len(preguntas_seleccionadas)
  /\ response' = [status |-> 200, preguntas |-> resultado]
  /\ pc' = "done"
  /\ UNCHANGED <<all_rows, handler, data, contacted, locals, row, row_index, question>>

(* ---------------------------- validate_answers ------------------------ *)
\* data.get('respuestas', [])
respuestas_usuario_of(d) == IF d.has_respuestas THEN d.respuestas ELSE <<>>

\* lines 215-219: read the body, reject an empty list
ValidateBegin ==
  /\ handler = "idle"
  /\ \E d \in ValidateBodies :
       /\ data' = d
       /\ handler' = "validate_answers"
       /\ IF d.kind = "null"
          THEN /\ response' = [status |-> 500, error |-> "Error al validar respuestas",
                               tipo |-> "AttributeError"]
               /\ pc' = "done"
          ELSE IF respuestas_usuario_of(d) = <<>>
          THEN /\ response' = [status |-> 400, error |-> "No se enviaron respuestas"]
               /\ pc' = "done"
          ELSE /\ response' = response
               /\ pc' = "fetch"
  /\ UNCHANGED <<all_rows, contacted, locals, row, row_index, question>>

\* lines 221-240: fetch the rows, build the lookup
ValidateFetch ==
  /\ handler = "validate_answers"
  /\ pc = "fetch"
  /\ contacted' = TRUE
  /\ \E outcome \in SourceOutcomes :
       CASE outcome = "ValueError" ->
              /\ response' = ConfigError
              /\ pc' = "done"
              /\ UNCHANGED preguntas_dict
         [] outcome = "Exception" ->
              /\ response' = [status |-> 500, error |-> "Error al validar respuestas",
                              tipo |-> "Exception"]
              /\ pc' = "done"
              /\ UNCHANGED preguntas_dict
         [] OTHER ->
              /\ preguntas_dict' = build_preguntas_dict(all_rows)
              /\ response' = response
              /\ pc' = "loop"
  /\ UNCHANGED <<all_rows, handler, data, preguntas, preguntas_seleccionadas, resultado,
                 resultados, puntaje_total, correctas, incorrectas,
                 row, row_index, question>>

\* the number of submitted answers the loop has gone through
Processed == Len(resultados)

\* lines 242-271: one iteration of the validation loop
ValidateStep ==
  /\ handler = "validate_answers"
  /\ pc = "loop"
  /\ Processed < Len(respuestas_usuario_of(data))
  /\ LET respuesta == respuestas_usuario_of(data)[Processed + 1]
         acc == [resultados |-> resultados, puntaje_total |-> puntaje_total,
                 correctas |-> correctas, incorrectas |-> incorrectas]
     IN IF respuesta_raises(respuesta)
        THEN /\ response' = [status |-> 500, error |-> "Error al validar respuestas",
                             tipo |-> "AttributeError"]
             /\ pc' = "done"
             /\ UNCHANGED <<resultados, puntaje_total, correctas, incorrectas>>
        ELSE LET new == validate_item(acc, respuesta, preguntas_dict)
             IN /\ resultados' = new.resultados
                /\ puntaje_total' = new.puntaje_total
                /\ correctas' = new.correctas
                /\ incorrectas' = new.incorrectas
                /\ UNCHANGED <<response, pc>>
  /\ UNCHANGED <<all_rows, handler, data, contacted, preguntas, preguntas_seleccionadas,
                 resultado, preguntas_dict, row, row_index, question>>

\* lines 273-279
ValidateReturn ==
  /\ handler = "validate_answers"
  /\ pc = "loop"
  /\ Processed = Len(respuestas_usuario_of(data))
  /\ response' = [status |-> 200,
                  resultados |-> resultados,
                  puntaje_total |-> puntaje_total,
                  total_preguntas |-> Len(respuestas_usuario_of(data)),
                  correctas |-> correctas,
                  incorrectas |-> incorrectas]
  /\ pc' = "done"
  /\ UNCHANGED <<all_rows, handler, data, contacted, locals, row, row_index, question>>

\* the response is sent; nothing of the request survives it
Respond ==
  /\ handler \in {"get_questions", "validate_answers"}
  /\ pc = "done"
  /\ handler' = "idle"
  /\ pc' = "idle"
  /\ data' = None
  /\ contacted' = FALSE
  /\ preguntas' = <<>>
  /\ preguntas_seleccionadas' = <<>>
  /\ resultado' = <<>>
  /\ preguntas_dict' = <<>>
  /\ resultados' = <<>>
  /\ puntaje_total' = 0
  /\ correctas' = 0
  /\ incorrectas' = 0
  /\ response' = NoResponse
  /\ UNCHANGED <<all_rows, row, row_index, question>>

Next ==
  \/ GetQuestionsBegin
  \/ GetQuestionsFetch
  \/ GetQuestionsSample
  \/ GetQuestionsShuffle
  \/ GetQuestionsReturn
  \/ ValidateBegin
  \/ ValidateFetch
  \/ ValidateStep
  \/ ValidateReturn
  \/ Respond

Spec == Init /\ [][Next]_vars

(* ============================== properties ============================ *)
\* res is s with the white space at both ends removed and every character
\* upper-cased, stated by positions rather than computed
TrimmedUpper(res, s) ==
  \E i \in 1..(Len(s) + 1), j \in 0..Len(s) :
    /\ i <= j + 1
    /\ \A k \in 1..(i - 1) : IsSpace(s[k])
    /\ \A k \in (j + 1)..Len(s) : IsSpace(s[k])
    /\ i <= j => (~IsSpace(s[i]) /\ ~IsSpace(s[j]))
    /\ Len(res) = j - i + 1
    /\ \A k \in 1..Len(res) : res[k] = UpperChar(s[i + k - 1])

\* the option fields (fields 2-5) of r that are not empty
NonEmptyOptionFields(r) == {i \in 2..5 : i < Len(r) /\ Field(r, i) # <<>>}

ValidRow(r) ==
  /\ Len(r) >= 7
  /\ Field(r, 1) # <<>>
  /\ Cardinality(NonEmptyOptionFields(r)) >= 2

\* C1: for a row with at least 7 fields, a non-empty question text and at
\* least 2 non-empty option fields, parse_question_row returns a question
\* with as many options as non-empty option fields, whose respuesta_correcta
\* is field 6 trimmed and upper-cased.
C1_ParseValidRow ==
  (handler = "parse" /\ pc = "returned" /\ ValidRow(row)) =>
    /\ question # None
    /\ Len(question.opciones) = Cardinality(NonEmptyOptionFields(row))
    /\ TrimmedUpper(question.respuesta_correcta, Field(row, 6))

C1_Witness ==
  /\ handler = "parse" /\ pc = "returned" /\ ValidRow(row)
  /\ Field(row, 6) = <<" ", "a", " ">>
  /\ Cardinality(NonEmptyOptionFields(row)) = 3
  /\ question # None
  /\ question.respuesta_correcta = <<"A">>

\* C2: a row with fewer than 7 fields, an empty question text or fewer than
\* 2 non-empty option fields is parsed to None; so every question returned
\* has a non-empty text and between 2 and 4 options.
C2_ParseRejects ==
  (handler = "parse" /\ pc = "returned") =>
    /\ ~ValidRow(row) => question = None
    /\ question # None =>
         /\ question.pregunta # <<>>
         /\ Len(question.opciones) \in 2..4

C2_Witness ==
  /\ handler = "parse" /\ pc = "returned"
  /\ Len(row) >= 7
  /\ Field(row, 1) # <<>>
  /\ Cardinality(NonEmptyOptionFields(row)) = 1
  /\ question = None

(* ------------------------------ get-questions ------------------------- *)
GetQuestionsSucceeded ==
  handler = "get_questions" /\ pc = "done" /\ response.status = 200

\* C3: a successful get-questions response has exactly min(R, N) questions,
\* taken from min(R, N) different entries of the pool of N parsed questions.
C3_SampleSizeDistinct ==
  GetQuestionsSucceeded =>
    LET served == response.preguntas
        N == Len(preguntas)
        R == cantidad_of(data).val
    IN /\ N > 0
       /\ Len(served) = Min(R, N)
       /\ Len(preguntas_seleccionadas) = Len(served)
       /\ \A i \in 1..Len(served) :
            /\ preguntas_seleccionadas[i] \in 1..N
            /\ served[i].id = preguntas[preguntas_seleccionadas[i]].id
            /\ served[i].pregunta = preguntas[preguntas_seleccionadas[i]].pregunta
       /\ \A i, j \in 1..Len(served) :
            i # j => preguntas_seleccionadas[i] # preguntas_seleccionadas[j]

\* the request asks for more than the pool holds and gets the whole pool
C3_Witness ==
  /\ GetQuestionsSucceeded
  /\ Len(preguntas) = 2
  /\ cantidad_of(data).val > 2
  /\ Len(response.preguntas) = 2

\* C4: no served question carries respuesta_correcta: each has exactly the
\* fields id, pregunta and opciones.
C4_NoCorrectAnswerServed ==
  handler = "get_questions" =>
    /\ \A i \in 1..Len(resultado) :
         /\ DOMAIN resultado[i] = {"id", "pregunta", "opciones"}
         /\ \A k \in 1..Len(resultado[i].opciones) :
              DOMAIN resultado[i].opciones[k] = {"codigo", "texto"}
    /\ GetQuestionsSucceeded =>
         \A i \in 1..Len(response.preguntas) :
           "respuesta_correcta" \notin DOMAIN response.preguntas[i]

C4_Witness ==
  /\ GetQuestionsSucceeded
  /\ Len(response.preguntas) = 2
  /\ preguntas[preguntas_seleccionadas[1]].respuesta_correcta = <<"B">>

\* how many options of ops equal o / have the text t
CountOption(ops, o) == Cardinality({k \in 1..Len(ops) : ops[k] = o})
CountText(ops, t) == Cardinality({k \in 1..Len(ops) : ops[k].texto = t})
Range(f) == {f[k] : k \in DOMAIN f}

\* C5: the options served for a question are the question's original
\* non-empty options as a multiset (of texts, and of code-text pairs): only
\* their order varies.
C5_ShufflePreservesOptions ==
  GetQuestionsSucceeded =>
    \A i \in 1..Len(response.preguntas) :
      LET got == response.preguntas[i].opciones
          orig == preguntas[preguntas_seleccionadas[i]].opciones
      IN /\ Len(got) = Len(orig)
         /\ \A o \in Range(got) \cup Range(orig) :
              /\ CountOption(got, o) = CountOption(orig, o)
              /\ CountText(got, o.texto) = CountText(orig, o.texto)

\* a served question whose options come in another order than in the sheet,
\* two of them with the same text
C5_Witness ==
  /\ GetQuestionsSucceeded
  /\ \E i \in 1..Len(response.preguntas) :
       LET got == response.preguntas[i].opciones
           orig == preguntas[preguntas_seleccionadas[i]].opciones
       IN /\ got # orig
          /\ CountText(orig, X) = 2

(* ---------------------------- validate-answers ------------------------ *)
\* the question parsed from the row at position k of the sheet (1-based,
\* the header at position 1), or None
ParsedAt(k) == parse_question_row(all_rows[k], k)

RowsWithId(id) ==
  {k \in 2..Len(all_rows) : ParsedAt(k) # None /\ ParsedAt(k).id = id}

InLookup(id) == RowsWithId(id) # {}

SetMax(S) == CHOOSE m \in S : \A x \in S : x <= m

Submitted == respuestas_usuario_of(data)

\* the submitted string: '' when the key is missing
CodeOf(item) == IF item.respuesta.type = "absent" THEN <<>> ELSE item.respuesta.val

InValidateLoop ==
  handler = "validate_answers" /\ pc \in {"loop", "done"} /\ data.kind = "object"

\* C6: for a submitted answer whose id is in the lookup, the result has
\* correcta = true and puntaje = 1 exactly when the submitted code, trimmed
\* and upper-cased, is the correct answer of the last parsed row with that
\* id; otherwise puntaje = 0.
C6_ItemScore ==
  InValidateLoop =>
    \A i \in 1..Len(resultados) :
      LET rows == RowsWithId(Submitted[i].id)
          held == ParsedAt(SetMax(rows))
          matches == TrimmedUpper(held.respuesta_correcta, CodeOf(Submitted[i]))
          r == resultados[i]
      IN rows # {} =>
           /\ "error" \notin DOMAIN r
           /\ r.id = Submitted[i].id
           /\ r.correcta = matches
           /\ r.puntaje = IF matches THEN 1 ELSE 0

\* " a" scores against the answer "A" of the last of two rows with id "1"
C6_Witness ==
  /\ InValidateLoop /\ pc = "done" /\ response.status = 200
  /\ Cardinality(RowsWithId(IdOne)) = 2
  /\ \E i \in 1..Len(resultados) :
       /\ Submitted[i] = [id |-> IdOne, respuesta |-> RStr(<<" ", "a">>)]
       /\ resultados[i].puntaje = 1

RECURSIVE SumPuntaje(_)
SumPuntaje(rs) == IF rs = <<>> THEN 0 ELSE Head(rs).puntaje + SumPuntaje(Tail(rs))

\* C7: after each prefix of the submitted list, puntaje_total is the sum of
\* the results' puntaje and correctas + incorrectas is the number of items
\* processed; in a successful response that number is total_preguntas, the
\* number of submitted answers.
C7_Aggregate ==
  /\ (handler = "validate_answers" /\ pc = "loop") =>
       /\ puntaje_total = SumPuntaje(resultados)
       /\ correctas + incorrectas = Len(resultados)
       /\ Len(resultados) <= Len(Submitted)
  /\ (handler = "validate_answers" /\ pc = "done" /\ response.status = 200) =>
       /\ response.puntaje_total = SumPuntaje(response.resultados)
       /\ response.correctas + response.incorrectas = response.total_preguntas
       /\ response.total_preguntas = Len(Submitted)
       /\ Len(response.resultados) = Len(Submitted)

\* a response with one right answer and one unknown id
C7_Witness ==
  /\ handler = "validate_answers" /\ pc = "done" /\ response.status = 200
  /\ response.total_preguntas = 2
  /\ response.correctas = 1
  /\ \E i \in 1..2 : "error" \in DOMAIN response.resultados[i]

\* a cantidad that is a JSON integer greater than 0
IsPositiveInteger(v) == v.type = "int" /\ v.val > 0

\* C8: a get-questions request whose cantidad is not a positive integer is
\* answered 400, and the backing source is never contacted for it.
C8_RejectsBadCantidad ==
  (/\ handler = "get_questions"
   /\ data.kind = "object"
   /\ data.cantidad.type # "absent"
   /\ ~IsPositiveInteger(data.cantidad)) =>
    /\ ~contacted
    /\ pc = "done"
    /\ response.status = 400

\* the source answered and the lookup was built
LookupBuilt ==
  /\ contacted
  /\ ~(/\ response.status = 500
       /\ \/ response = ConfigError
          \/ response.tipo = "Exception")

\* C9: a submitted answer with an id that is not in the lookup yields a
\* not-found entry with puntaje 0 and never fails the request, whatever its
\* other fields: the response is a success with one result per submitted
\* answer, in input order.
C9_UnknownIdNeverFails ==
  (/\ handler = "validate_answers" /\ pc = "done" /\ data.kind = "object"
   /\ LookupBuilt
   /\ \E i \in 1..Len(Submitted) : ~InLookup(Submitted[i].id)
   /\ \A i \in 1..Len(Submitted) :
        InLookup(Submitted[i].id) => Submitted[i].respuesta.type # "null") =>
    /\ response.status = 200
    /\ Len(response.resultados) = Len(Submitted)
    /\ \A i \in 1..Len(Submitted) :
         /\ response.resultados[i].id = Submitted[i].id
         /\ ~InLookup(Submitted[i].id) =>
              response.resultados[i] =
                [id |-> Submitted[i].id, error |-> "Pregunta no encontrada", puntaje |-> 0]

\* the pool get_questions serves from
Pool == load_preguntas(all_rows)

\* no later question of the pool has the id of the j-th
LastWithItsId(pool, j) == \A j2 \in (j + 1)..Len(pool) : pool[j2].id # pool[j].id

\* the original statement of C10: a question get-questions can serve is
\* found by validate-answers under its id, and its own correct-answer code
\* scores puntaje 1, also when several rows share the id.
C10_Original ==
  InValidateLoop =>
    LET pool == Pool
    IN \A i \in 1..Len(resultados) : \A j \in 1..Len(pool) :
         Submitted[i].id = pool[j].id =>
           /\ "error" \notin DOMAIN resultados[i]
           /\ Submitted[i].respuesta = RStr(pool[j].respuesta_correcta) =>
                resultados[i].puntaje = 1

\* C10 (amended): a question get-questions can serve is found by
\* validate-answers under its id, synthesized or not; it is scored against
\* the answer of the last question of the pool with that id, so its own
\* correct-answer code scores puntaje 1 when no later row has its id.
C10_ServedFoundAndScored ==
  InValidateLoop =>
    LET pool == Pool
    IN \A i \in 1..Len(resultados) : \A j \in 1..Len(pool) :
         Submitted[i].id = pool[j].id =>
           /\ "error" \notin DOMAIN resultados[i]
           /\ LastWithItsId(pool, j) =>
                /\ resultados[i].respuesta_correcta = pool[j].respuesta_correcta
                /\ Submitted[i].respuesta = RStr(pool[j].respuesta_correcta) =>
                     (resultados[i].puntaje = 1 /\ resultados[i].correcta)

\* the question of row 3 has no id of its own: it is found under the
\* synthesized id and its own answer scores
C10_Witness ==
  /\ InValidateLoop /\ pc = "done" /\ response.status = 200
  /\ Len(all_rows) = 3 /\ Field(all_rows[3], 0) = <<>>
  /\ \E i \in 1..Len(resultados) :
       /\ Submitted[i] = [id |-> IdRowThree, respuesta |-> RStr(<<"B">>)]
       /\ resultados[i].puntaje = 1

====
